---- MODULE Spec2Model ----
(***************************************************************************)
(* Playback orchestration of the HackMIT context-aware music player.       *)
(*                                                                         *)
(* The front end (main.ts) is a set of asynchronous event handlers that    *)
(* share the module-level variables nextUrl, generating and history and    *)
(* the single <audio> element.  JavaScript runs one handler segment at a   *)
(* time; a handler gives up control at every await.  Each action below is  *)
(* one such segment: from an event (or the settling of the awaited         *)
(* promise) up to the next await or the end of the handler.  A suspended   *)
(* handler, and a generateTrack() promise with its then/catch/finally      *)
(* callbacks, is a record in the bag `tasks`.                              *)
(*                                                                         *)
(* The decision engine (change detection, cooldown) runs in the Rust back  *)
(* end; it is modelled in SpecDecision.                                    *)
(***************************************************************************)
EXTENDS Integers, Sequences, FiniteSets, Bags, TLC

\* ---------------------------------------------------------------- bounds
\* Number of handler instances / generation promises alive at once.
MaxTasks == 2
\* Longest history list explored.
MaxHist == 2
\* Fixed-point scale of audioEl.volume: VolScale stands for volume 1.0.
VolScale == 1000

\* Sampling ticks of the decision engine explored in one run.
MaxTicks == 5
\* Largest value of the fingerprint distance metric (its "known maximum").
HashMax == 20

\* ---------------------------------------------------------------- constants
\* fadeOutAndSwitch: const steps = 10
steps == 10
\* Rate limiting: 3-second cooldown between accepted switches
COOLDOWN == 3
\* CHANGE_THRESHOLD_PERCENT = 0.10, in percent of the maximum distance
CHANGE_THRESHOLD == 10

\* "no URL": null for nextUrl, the empty string for audioEl.src
NoUrl == 0
\* The stream URLs the back end hands out during the explored run, in this order;
\* every generation that succeeds yields a URL not seen before.
Urls == {1, 2}
MaxGen == Cardinality(Urls)
\* The URL of a track that was generated before the explored run starts.
OldUrl == MaxGen + 1

VARIABLES
    src,         \* audioEl.src (NoUrl when nothing was ever loaded)
    volume,      \* audioEl.volume, in 1/VolScale
    playing,     \* the element is actually producing sound
    atStart,     \* audioEl.currentTime is 0: set by a load or a seek, lost once playback runs
    nextUrl,     \* let nextUrl: string | null
    generating,  \* let generating = false
    history,     \* let history: string[]
    genDisabled, \* genBtnEl.disabled
    status,      \* what statusEl.textContent reports: "idle", "requesting", "ready", "error"
    genCount,    \* URLs handed out so far by the back end
    tasks,       \* bag of suspended handlers and pending generation promises
    timers,      \* the pending setTimeout(r, intervalMs) timers of the fades, by newUrl, in the
                 \* order they were set: equal delays, so they fire in that order
    \* the decision engine of the back end
    now,             \* time of the latest sampling tick, in seconds
    lastSwitchTime,  \* RateLimiter: time of the last accepted switch, or Never
    prevFingerprint, \* ChangeDetector: fingerprint of the previous sample, or NoPrint
    lastEvent,       \* ChangeDetector: the ChangeEvent of the latest sample
    decisions,       \* the ContextDecisions emitted so far, in sampling order
    \* the preference controls of the page
    prefs            \* what the genre boxes and the mode buttons currently show

frontVars == <<src, volume, playing, atStart, nextUrl, generating, history,
               genDisabled, status, genCount, tasks, timers>>

backVars == <<now, lastSwitchTime, prevFingerprint, lastEvent, decisions>>

uiVars == <<prefs>>

vars == <<frontVars, backVars, uiVars>>

\* ---------------------------------------------------------------- tasks
\* pc   : the await the task is suspended at
\* url  : the URL the task still refers to (newUrl of a fade, `next` of forward or of the advance)
\* i    : fade loop: volume steps done so far; prefetch: how many foreground generations
\*        had been requested and were still pending when it was requested
\* sv   : fade: startVol
\* st   : state of an awaited play() promise: "pend", "rej" (already rejected), "-" (none)
\* from : which caller / branch the task belongs to
\* prefs: pending generateTrack(): the prefs argument its invoke was called with
\* the awaits at which a generateTrack() call is pending
GenPcs == {"genAwaitGen", "swAwaitGen", "fwdAwaitGen", "prefetch"}

\* the preference settings told apart: the Instrumental button on (as the page loads) or off
PrefChoices == {"instrumental", "vocals"}

\* faulty variant: the preferences are read once, when the page loads
collectPreferences_AtLoad == "instrumental"

\* collectPreferences(): reads the controls when it is called
collectPreferences == prefs

Task(pc, url, i, sv, st, from) ==
    [pc |-> pc, url |-> url, i |-> i, sv |-> sv, st |-> st, from |-> from,
     prefs |-> IF pc \in GenPcs THEN collectPreferences ELSE "-"]

AwaitPlayPcs == {"genAwaitPlay", "fadeAwaitPlay", "endAwaitPlay", "ctlAwaitPlay", "fwdAwaitPlay"}

One(t) == SetToBag({t})

NumTasks == BagCardinality(tasks)

\* Tasks of bag B whose pc is in P, counted with multiplicity
CountPc(B, P) ==
    LET S == {t \in BagToSet(B) : t.pc \in P}
        RECURSIVE Sum(_)
        Sum(T) == IF T = {} THEN 0
                  ELSE LET x == CHOOSE y \in T : TRUE IN B[x] + Sum(T \ {x})
    IN Sum(S)

\* Background (prefetch) generations in flight: generateTrack().then(nextUrl = ...)
BgInFlight == CountPc(tasks, {"prefetch"})

\* Foreground generations in flight: `await generateTrack()` in a handler
FgInFlight == CountPc(tasks, {"genAwaitGen", "swAwaitGen", "fwdAwaitGen"})

\* Loading a new source or pausing rejects every pending play() promise
\* (HTMLMediaElement load / pause algorithms).
RejectPending(B) ==
    LET S == BagToSet(B)
        rej(t) == IF t.pc \in AwaitPlayPcs THEN [t EXCEPT !.st = "rej"] ELSE t
        T == {rej(t) : t \in S}
        pre(x) == {t \in S : rej(t) = x}
        RECURSIVE Sum(_)
        Sum(U) == IF U = {} THEN 0
                  ELSE LET y == CHOOSE z \in U : TRUE IN B[y] + Sum(U \ {y})
    IN [x \in T |-> Sum(pre(x))]

\* audioEl.paused: neither playing nor about to (a play() promise pending)
paused == ~playing /\ \A t \in BagToSet(tasks) : t.st # "pend"

\* ---------------------------------------------------------------- helpers
\* faulty variant: the push is not guarded, an absent source is pushed too
PushCurrent_Unguarded == Append(history, src)

\* history.push(audioEl.src), guarded by `if (audioEl.src)`
PushCurrent == IF src # NoUrl THEN Append(history, src) ELSE history

\* the push fits the explored history length
HistRoom == src # NoUrl => Len(history) < MaxHist

\* Math.max(0, startVol * (1 - (i + 1) / steps)), i the loop index
StepVol(startVol, i) ==
    LET v == (startVol * (steps - (i + 1))) \div steps
    IN IF v < 0 THEN 0 ELSE v

\* play() on an element without a source never starts: its promise is rejected
PlayCallSt(s) == IF s = NoUrl THEN "rej" ELSE "pend"

\* How the play() promise awaited by t can settle: ok = TRUE resolved, FALSE rejected.
\* A promise already rejected (by a later load or pause) stays rejected; a play() on
\* an element that is already playing resolves; otherwise playback starts or fails.
CanSettle(t, ok) ==
    IF t.st = "rej" THEN ~ok
    ELSE IF playing THEN ok
    ELSE TRUE

PlayingAfter(t, ok) == IF ok THEN TRUE ELSE playing

\* once playback runs the position leaves zero
AtStartAfter(t, ok) == IF ok THEN FALSE ELSE atStart

\* The bag without t; a failed start rejects the other promises waiting on it too
RestAfter(t, ok) ==
    IF ~ok /\ t.st = "pend" THEN RejectPending(tasks (-) One(t)) ELSE tasks (-) One(t)

\* The flagged prefetch:
\*   generating = true; generateTrack().then(u => nextUrl = u).catch().finally(generating = false)
FlaggedPrefetch == Task("prefetch", NoUrl, FgInFlight, 0, "-", "flagged")

\* The warm-up after a fade switch: generateTrack().then(nu => nextUrl = nu).catch()
WarmPrefetch == Task("prefetch", NoUrl, FgInFlight, 0, "-", "warm")

\* ---------------------------------------------------------------- Generate button
\* genBtnEl click, up to `await generateTrack()`
GenerateClick ==
    /\ ~genDisabled
    /\ NumTasks < MaxTasks
    /\ status' = "requesting"
    /\ genDisabled' = TRUE
    /\ tasks' = tasks (+) One(Task("genAwaitGen", NoUrl, 0, 0, "-", "generate"))
    /\ UNCHANGED <<src, volume, playing, atStart, nextUrl, generating, history, genCount>>
    /\ UNCHANGED timers

\* faulty variant: the button is re-enabled at the end of the try block, not in finally
GenerateGenDone_NoFinally(t) ==
    /\ t.pc = "genAwaitGen"
    /\ \/ /\ genCount < MaxGen
          /\ LET url == genCount + 1 IN
             /\ genCount' = url
             /\ status' = "ready"
             /\ src' = url
             /\ playing' = FALSE
             /\ atStart' = TRUE
             /\ tasks' = RejectPending(tasks (-) One(t))
                           (+) One(Task("genAwaitPlay", NoUrl, 0, 0, "pend", "generate"))
          /\ UNCHANGED <<volume, nextUrl, generating, history, genDisabled>>
       \/ /\ status' = "error"
          /\ tasks' = tasks (-) One(t)
          /\ UNCHANGED <<src, volume, playing, atStart, nextUrl, generating, history,
                         genCount, genDisabled>>
    /\ UNCHANGED timers

\* generateTrack() settles in the click handler: play the stream, or report the error
GenerateGenDone(t) ==
    /\ t.pc = "genAwaitGen"
    /\ \/ /\ genCount < MaxGen
          /\ LET url == genCount + 1 IN
             /\ genCount' = url
             /\ status' = "ready"
             /\ src' = url
             /\ playing' = FALSE
             /\ atStart' = TRUE
             /\ tasks' = RejectPending(tasks (-) One(t))
                           (+) One(Task("genAwaitPlay", NoUrl, 0, 0, "pend", "generate"))
          /\ UNCHANGED <<volume, nextUrl, generating, history, genDisabled>>
       \/ /\ status' = "error"
          /\ genDisabled' = FALSE
          /\ tasks' = tasks (-) One(t)
          /\ UNCHANGED <<src, volume, playing, atStart, nextUrl, generating, history, genCount>>
    /\ UNCHANGED timers

\* after `await audioEl.play().catch(...)`: pre-generate the next track, re-enable the button
GenerateResume(t, ok) ==
    /\ t.pc = "genAwaitPlay"
    /\ CanSettle(t, ok)
    /\ playing' = PlayingAfter(t, ok)
    /\ atStart' = AtStartAfter(t, ok)
    /\ IF nextUrl = NoUrl /\ ~generating
       THEN /\ generating' = TRUE
            /\ tasks' = RestAfter(t, ok) (+) One(FlaggedPrefetch)
       ELSE /\ generating' = generating
            /\ tasks' = RestAfter(t, ok)
    /\ genDisabled' = FALSE
    /\ UNCHANGED <<src, volume, nextUrl, history, status, genCount>>
    /\ UNCHANGED timers

\* faulty variant: a prefetched track is put on the player as soon as it arrives
PrefetchDone_Switches(t) ==
    /\ t.pc = "prefetch"
    /\ \/ /\ genCount < MaxGen
          /\ HistRoom
          /\ genCount' = genCount + 1
          /\ history' = PushCurrent
          /\ src' = genCount + 1
          /\ UNCHANGED nextUrl
       \/ UNCHANGED <<genCount, nextUrl, src, history>>
    /\ generating' = IF t.from = "flagged" THEN FALSE ELSE generating
    /\ tasks' = tasks (-) One(t)
    /\ UNCHANGED <<volume, playing, atStart, genDisabled, status>>
    /\ UNCHANGED timers

\* faulty variant: the flag is reset in then() instead of finally(), a failure leaves it set
PrefetchDone_FlagInThen(t) ==
    /\ t.pc = "prefetch"
    /\ \/ /\ genCount < MaxGen
          /\ genCount' = genCount + 1
          /\ nextUrl' = genCount + 1
          /\ generating' = IF t.from = "flagged" THEN FALSE ELSE generating
       \/ UNCHANGED <<genCount, nextUrl, generating>>
    /\ tasks' = tasks (-) One(t)
    /\ UNCHANGED <<src, volume, playing, atStart, history, genDisabled, status>>
    /\ UNCHANGED timers

\* a background generateTrack() settles: then / catch / finally callbacks
PrefetchDone(t) ==
    /\ t.pc = "prefetch"
    /\ \/ /\ genCount < MaxGen
          /\ genCount' = genCount + 1
          /\ nextUrl' = genCount + 1
       \/ UNCHANGED <<genCount, nextUrl>>
    /\ generating' = IF t.from = "flagged" THEN FALSE ELSE generating
    /\ tasks' = tasks (-) One(t)
    /\ UNCHANGED <<src, volume, playing, atStart, history, genDisabled, status>>
    /\ UNCHANGED timers

\* ---------------------------------------------------------------- track ended
\* faulty variant: the advance forgets `nextUrl = null`
EndedNext_KeepBuffer ==
    /\ playing /\ src # NoUrl
    /\ nextUrl # NoUrl
    /\ NumTasks < MaxTasks
    /\ HistRoom
    /\ history' = PushCurrent
    /\ src' = nextUrl
    /\ playing' = FALSE
    /\ atStart' = TRUE
    /\ tasks' = RejectPending(tasks) (+) One(Task("endAwaitPlay", nextUrl, 0, 0, "pend", "next"))
    /\ UNCHANGED <<volume, nextUrl, generating, genDisabled, status, genCount>>
    /\ UNCHANGED timers

\* audioEl 'ended', branch `if (next)`: advance to the buffered track
EndedNext ==
    /\ playing /\ src # NoUrl
    /\ nextUrl # NoUrl
    /\ NumTasks < MaxTasks
    /\ HistRoom
    /\ nextUrl' = NoUrl
    /\ history' = PushCurrent
    /\ src' = nextUrl
    /\ playing' = FALSE
    /\ atStart' = TRUE
    /\ tasks' = RejectPending(tasks) (+) One(Task("endAwaitPlay", nextUrl, 0, 0, "pend", "next"))
    /\ UNCHANGED <<volume, generating, genDisabled, status, genCount>>
    /\ UNCHANGED timers

\* faulty variant: the restart forgets `audioEl.currentTime = 0`, the position stays at the end
EndedRestart_NoSeek ==
    /\ playing /\ src # NoUrl
    /\ nextUrl = NoUrl
    /\ NumTasks < MaxTasks
    /\ playing' = FALSE
    /\ atStart' = FALSE
    /\ volume' = volume
    /\ tasks' = tasks (+) One(Task("endAwaitPlay", NoUrl, 0, 0, "pend", "restart"))
    /\ UNCHANGED <<src, nextUrl, generating, history, genDisabled, status, genCount>>
    /\ UNCHANGED timers

\* audioEl 'ended', else branch: restart the current track
EndedRestart ==
    /\ playing /\ src # NoUrl
    /\ nextUrl = NoUrl
    /\ NumTasks < MaxTasks
    /\ playing' = FALSE
    /\ atStart' = TRUE
    /\ volume' = volume
    /\ tasks' = tasks (+) One(Task("endAwaitPlay", NoUrl, 0, 0, "pend", "restart"))
    /\ UNCHANGED <<src, nextUrl, generating, history, genDisabled, status, genCount>>
    /\ UNCHANGED timers

\* after `try { await audioEl.play(); } catch {}` in either branch: preload the following one
EndedResume(t, ok) ==
    /\ t.pc = "endAwaitPlay"
    /\ CanSettle(t, ok)
    /\ playing' = PlayingAfter(t, ok)
    /\ atStart' = AtStartAfter(t, ok)
    /\ IF ~generating
       THEN /\ generating' = TRUE
            /\ tasks' = RestAfter(t, ok) (+) One(FlaggedPrefetch)
       ELSE /\ generating' = generating
            /\ tasks' = RestAfter(t, ok)
    /\ UNCHANGED <<src, volume, nextUrl, history, genDisabled, status, genCount>>
    /\ UNCHANGED timers

\* ---------------------------------------------------------------- fadeOutAndSwitch
\* faulty variant: the fade forgets to save the current source to history
FadeStart_NoPush(newUrl, from, rest) ==
    /\ HistRoom
    /\ history' = history
    /\ volume' = StepVol(volume, 0)
    /\ tasks' = rest (+) One(Task("fadeWait", newUrl, 1, volume, "-", from))
    /\ timers' = Append(timers, newUrl)

\* fadeOutAndSwitch(newUrl) up to the first `await setTimeout`: save the current source
\* to history, remember startVol, first volume step.  `rest` is the bag the new task joins.
FadeStart(newUrl, from, rest) ==
    /\ HistRoom
    /\ history' = PushCurrent
    /\ volume' = StepVol(volume, 0)
    /\ tasks' = rest (+) One(Task("fadeWait", newUrl, 1, volume, "-", from))
    /\ timers' = Append(timers, newUrl)

\* the oldest pending timer fires inside the loop: the next volume step
FadeStep(t) ==
    /\ t.pc = "fadeWait"
    /\ t.url = Head(timers)
    /\ t.i < steps
    /\ timers' = Append(Tail(timers), t.url)
    /\ volume' = StepVol(t.sv, t.i)
    /\ tasks' = (tasks (-) One(t)) (+) One([t EXCEPT !.i = t.i + 1])
    /\ UNCHANGED <<src, playing, atStart, nextUrl, generating, history, genDisabled, status, genCount>>

\* the loop is over: pause(), src = newUrl, volume = startVol, then `await audioEl.play()`
FadeSwitch(t) ==
    /\ t.pc = "fadeWait"
    /\ t.url = Head(timers)
    /\ t.i = steps
    /\ timers' = Tail(timers)
    /\ playing' = FALSE
    /\ src' = t.url
    /\ atStart' = TRUE
    /\ volume' = t.sv
    /\ tasks' = RejectPending(tasks (-) One(t))
                  (+) One(Task("fadeAwaitPlay", t.url, t.i, t.sv, "pend", t.from))
    /\ UNCHANGED <<nextUrl, generating, history, genDisabled, status, genCount>>

\* play() settled: fadeOutAndSwitch returns.  The switch_with_fade caller then warms a
\* next track, unguarded; the music:switch caller only refreshes the displayed tags.
FadeDone(t, ok) ==
    /\ t.pc = "fadeAwaitPlay"
    /\ CanSettle(t, ok)
    /\ playing' = PlayingAfter(t, ok)
    /\ atStart' = AtStartAfter(t, ok)
    /\ tasks' = IF t.from = "decision"
                THEN RestAfter(t, ok) (+) One(WarmPrefetch)
                ELSE RestAfter(t, ok)
    /\ UNCHANGED <<src, volume, nextUrl, generating, history, genDisabled, status, genCount>>
    /\ UNCHANGED timers

\* listen("music:switch"): the back end pushes a new stream URL
MusicSwitch ==
    /\ NumTasks < MaxTasks
    /\ genCount < MaxGen
    /\ genCount' = genCount + 1
    /\ FadeStart(genCount + 1, "music", tasks)
    /\ UNCHANGED <<src, playing, atStart, nextUrl, generating, genDisabled, status>>

\* ---------------------------------------------------------------- context:decision
\* the branch on payload.action, run once the context text is shown
DecisionAct(action, rest) ==
    IF action = "switch_with_fade"
    THEN /\ tasks' = rest (+) One(Task("swAwaitGen", NoUrl, 0, 0, "-", action))
         /\ UNCHANGED generating
    ELSE IF nextUrl = NoUrl /\ ~generating
         THEN /\ generating' = TRUE
              /\ tasks' = rest (+) One(FlaggedPrefetch)
         ELSE /\ tasks' = rest
              /\ UNCHANGED generating

\* listen("context:decision"): with a current_context the handler first awaits
\* invoke("get_current_music_tags"); without one it acts at once
ContextDecision ==
    /\ NumTasks < MaxTasks
    /\ UNCHANGED <<src, volume, playing, atStart, nextUrl, history, genDisabled, status, genCount>>
    /\ UNCHANGED timers
    /\ \E action \in {"continue", "switch_with_fade"}, hasCtx \in BOOLEAN :
        IF hasCtx
        THEN /\ tasks' = tasks (+) One(Task("decAwaitTags", NoUrl, 0, 0, "-", action))
             /\ UNCHANGED generating
        ELSE DecisionAct(action, tasks)

\* get_current_music_tags settled (either way: the failure is caught and logged)
DecisionTagsDone(t) ==
    /\ t.pc = "decAwaitTags"
    /\ DecisionAct(t.from, tasks (-) One(t))
    /\ UNCHANGED <<src, volume, playing, atStart, nextUrl, history, genDisabled, status, genCount>>
    /\ UNCHANGED timers

\* faulty variant: a result that arrives while a newer switch_with_fade request is
\* pending is dropped as stale
SwitchGenDone_DropStale(t) ==
    /\ t.pc = "swAwaitGen"
    /\ \/ /\ genCount < MaxGen
          /\ CountPc(tasks, {"swAwaitGen"}) = 1
          /\ genCount' = genCount + 1
          /\ FadeStart(genCount + 1, "decision", tasks (-) One(t))
          /\ UNCHANGED <<src, playing, atStart, nextUrl, generating, genDisabled, status>>
       \/ /\ genCount < MaxGen
          /\ CountPc(tasks, {"swAwaitGen"}) > 1
          /\ genCount' = genCount + 1
          /\ tasks' = tasks (-) One(t)
          /\ UNCHANGED <<src, volume, playing, atStart, nextUrl, generating, history,
                         genDisabled, status, timers>>
       \/ /\ tasks' = tasks (-) One(t)
          /\ UNCHANGED <<src, volume, playing, atStart, nextUrl, generating, history,
                         genDisabled, status, genCount, timers>>

\* the priority generateTrack() of switch_with_fade settles: fade into it, or log the failure
SwitchGenDone(t) ==
    /\ t.pc = "swAwaitGen"
    /\ \/ /\ genCount < MaxGen
          /\ genCount' = genCount + 1
          /\ FadeStart(genCount + 1, "decision", tasks (-) One(t))
          /\ UNCHANGED <<src, playing, atStart, nextUrl, generating, genDisabled, status>>
       \/ /\ tasks' = tasks (-) One(t)
          /\ UNCHANGED <<src, volume, playing, atStart, nextUrl, generating, history,
                         genDisabled, status, genCount, timers>>

\* ---------------------------------------------------------------- transport controls
\* faulty variant: with no history the handler calls play() without seeking to zero
Back_NoSeek ==
    /\ NumTasks < MaxTasks
    /\ IF history # <<>>
       THEN /\ history' = SubSeq(history, 1, Len(history) - 1)
            /\ src' = history[Len(history)]
            /\ playing' = FALSE
            /\ atStart' = TRUE
            /\ tasks' = RejectPending(tasks)
                          (+) One(Task("ctlAwaitPlay", NoUrl, 0, 0, "pend", "control"))
       ELSE /\ tasks' = tasks (+) One(Task("ctlAwaitPlay", NoUrl, 0, 0, PlayCallSt(src), "control"))
            /\ UNCHANGED <<history, src, playing, atStart>>
    /\ UNCHANGED <<volume, nextUrl, generating, genDisabled, status, genCount>>
    /\ UNCHANGED timers

\* faulty variant: the handler takes the oldest entry of history instead of the newest
Back_Oldest ==
    /\ NumTasks < MaxTasks
    /\ IF history # <<>>
       THEN /\ history' = Tail(history)
            /\ src' = Head(history)
            /\ playing' = FALSE
            /\ atStart' = TRUE
            /\ tasks' = RejectPending(tasks)
                          (+) One(Task("ctlAwaitPlay", NoUrl, 0, 0, "pend", "control"))
       ELSE /\ atStart' = TRUE
            /\ tasks' = tasks (+) One(Task("ctlAwaitPlay", NoUrl, 0, 0, PlayCallSt(src), "control"))
            /\ UNCHANGED <<history, src, playing>>
    /\ UNCHANGED <<volume, nextUrl, generating, genDisabled, status, genCount>>
    /\ UNCHANGED timers

\* backBtn click
Back ==
    /\ NumTasks < MaxTasks
    /\ IF history # <<>>
       THEN /\ history' = SubSeq(history, 1, Len(history) - 1)
            /\ src' = history[Len(history)]
            /\ playing' = FALSE
            /\ atStart' = TRUE
            /\ tasks' = RejectPending(tasks)
                          (+) One(Task("ctlAwaitPlay", NoUrl, 0, 0, "pend", "control"))
       ELSE /\ atStart' = TRUE
            /\ tasks' = tasks (+) One(Task("ctlAwaitPlay", NoUrl, 0, 0, PlayCallSt(src), "control"))
            /\ UNCHANGED <<history, src, playing>>
    /\ UNCHANGED <<volume, nextUrl, generating, genDisabled, status, genCount>>
    /\ UNCHANGED timers

\* faulty variant: the click on a playing track rejects the pending play() promises
\* but leaves the track playing
PlayPause_NoPause ==
    /\ IF paused
       THEN /\ NumTasks < MaxTasks
            /\ tasks' = tasks (+) One(Task("ctlAwaitPlay", NoUrl, 0, 0, PlayCallSt(src), "control"))
            /\ UNCHANGED playing
       ELSE /\ playing' = playing
            /\ tasks' = RejectPending(tasks)
    /\ UNCHANGED <<src, volume, atStart, nextUrl, generating, history, genDisabled, status, genCount>>
    /\ UNCHANGED timers

\* playPauseBtn click
PlayPause ==
    /\ UNCHANGED <<src, volume, atStart, nextUrl, generating, history, genDisabled, status, genCount>>
    /\ UNCHANGED timers
    /\ IF paused
       THEN /\ NumTasks < MaxTasks
            /\ tasks' = tasks (+) One(Task("ctlAwaitPlay", NoUrl, 0, 0, PlayCallSt(src), "control"))
            /\ UNCHANGED playing
       ELSE /\ playing' = FALSE
            /\ tasks' = RejectPending(tasks)

\* the play() of back / play-pause / forward-after-generation settled; nothing follows
\* but the button label
ControlResume(t, ok) ==
    /\ t.pc = "ctlAwaitPlay"
    /\ CanSettle(t, ok)
    /\ playing' = PlayingAfter(t, ok)
    /\ atStart' = AtStartAfter(t, ok)
    /\ tasks' = RestAfter(t, ok)
    /\ UNCHANGED <<src, volume, nextUrl, generating, history, genDisabled, status, genCount>>
    /\ UNCHANGED timers

\* forwardBtn click
Forward ==
    /\ NumTasks < MaxTasks
    /\ IF nextUrl # NoUrl
       THEN /\ HistRoom
            /\ history' = PushCurrent
            /\ src' = nextUrl
            /\ playing' = FALSE
            /\ atStart' = TRUE
            /\ tasks' = RejectPending(tasks)
                          (+) One(Task("fwdAwaitPlay", nextUrl, 0, 0, "pend", "forward"))
       ELSE /\ tasks' = tasks (+) One(Task("fwdAwaitGen", NoUrl, 0, 0, "-", "forward"))
            /\ UNCHANGED <<history, src, playing, atStart>>
    /\ UNCHANGED <<volume, nextUrl, generating, genDisabled, status, genCount>>
    /\ UNCHANGED timers

\* `await audioEl.play(); nextUrl = null;` inside try: the buffer is cleared only if play() resolved
ForwardResume(t, ok) ==
    /\ t.pc = "fwdAwaitPlay"
    /\ CanSettle(t, ok)
    /\ playing' = PlayingAfter(t, ok)
    /\ atStart' = AtStartAfter(t, ok)
    /\ tasks' = RestAfter(t, ok)
    /\ nextUrl' = IF ok THEN NoUrl ELSE nextUrl
    /\ UNCHANGED <<src, volume, generating, history, genDisabled, status, genCount>>
    /\ UNCHANGED timers

\* forward with nothing queued: `await generateTrack().catch(() => null)` settled
ForwardGenDone(t) ==
    /\ t.pc = "fwdAwaitGen"
    /\ \/ /\ genCount < MaxGen
          /\ HistRoom
          /\ genCount' = genCount + 1
          /\ history' = PushCurrent
          /\ src' = genCount + 1
          /\ playing' = FALSE
          /\ atStart' = TRUE
          /\ tasks' = RejectPending(tasks (-) One(t))
                        (+) One(Task("ctlAwaitPlay", NoUrl, 0, 0, "pend", "control"))
          /\ UNCHANGED <<volume, nextUrl, generating, genDisabled, status>>
       \/ /\ tasks' = tasks (-) One(t)
          /\ UNCHANGED <<src, volume, playing, atStart, nextUrl, generating, history,
                         genDisabled, status, genCount>>
    /\ UNCHANGED timers

\* ---------------------------------------------------------------- preference buttons
\* a click on a preference button: only the control changes
PrefToggle ==
    /\ prefs' = IF prefs = "instrumental" THEN "vocals" ELSE "instrumental"
    /\ UNCHANGED <<frontVars, backVars>>

\* ---------------------------------------------------------------- decision engine
\* (back end: ChangeDetector, RateLimiter, DecisionEngine)
Never == -1
NoPrint == -1

\* the fingerprints sampled: distances 1, 2 and 5 of HashMax = 20 are 5%, 10% and 25%
Fingerprints == {0, 1, 2, 5}

\* the sampling intervals explored, in seconds: shorter than, equal to and longer than the cooldown
Intervals == 1..(COOLDOWN + 1)

\* the distance metric between two fingerprints, at most HashMax
Distance(a, b) == IF a >= b THEN a - b ELSE b - a

\* faulty variant: a distance of exactly CHANGE_THRESHOLD is not significant
classify_Strict(prev, curr) ==
    IF prev = NoPrint
    THEN [distance |-> 0, exceedsThreshold |-> FALSE]
    ELSE [distance |-> Distance(prev, curr),
          exceedsThreshold |-> Distance(prev, curr) * 100 > CHANGE_THRESHOLD * HashMax]

\* ChangeDetector.classify(prev, curr): distance / HashMax >= CHANGE_THRESHOLD / 100;
\* the first sample only establishes the baseline
classify(prev, curr) ==
    IF prev = NoPrint
    THEN [distance |-> 0, exceedsThreshold |-> FALSE]
    ELSE [distance |-> Distance(prev, curr),
          exceedsThreshold |-> Distance(prev, curr) * 100 >= CHANGE_THRESHOLD * HashMax]

\* faulty variant: the cooldown must be strictly exceeded
allow_Strict(t) == lastSwitchTime = Never \/ t - lastSwitchTime > COOLDOWN

\* RateLimiter.allow(now)
allow(t) == lastSwitchTime = Never \/ t - lastSwitchTime >= COOLDOWN

\* DecisionEngine, steps 2-4
decide(ev, t) == IF ev.exceedsThreshold /\ allow(t) THEN "switch_with_fade" ELSE "continue"

\* faulty variant: the limiter records every significant evaluation, accepted or not
Tick_RecordEvaluations(dt, fp) ==
    /\ Len(decisions) < MaxTicks
    /\ LET t == now + dt
           ev == classify(prevFingerprint, fp)
           action == decide(ev, t)
       IN /\ now' = t
          /\ prevFingerprint' = fp
          /\ lastEvent' = ev
          /\ lastSwitchTime' = IF ev.exceedsThreshold THEN t ELSE lastSwitchTime
          /\ decisions' = Append(decisions,
                                 [time |-> t, exceeds |-> ev.exceedsThreshold, action |-> action])

\* one sampling tick, dt seconds after the previous one, with fingerprint fp
Tick(dt, fp) ==
    /\ Len(decisions) < MaxTicks
    /\ LET t == now + dt
           ev == classify(prevFingerprint, fp)
           action == decide(ev, t)
       IN /\ now' = t
          /\ prevFingerprint' = fp
          /\ lastEvent' = ev
          /\ lastSwitchTime' = IF action = "switch_with_fade" THEN t ELSE lastSwitchTime
          /\ decisions' = Append(decisions,
                                 [time |-> t, exceeds |-> ev.exceedsThreshold, action |-> action])

\* ---------------------------------------------------------------- specification
\* The page right after DOMContentLoaded (nothing loaded), or an idle session in
\* which an earlier Generate has put track OldUrl on the player and its prefetch
\* came back empty.
InitFront ==
    /\ volume = VolScale
    /\ nextUrl = NoUrl
    /\ generating = FALSE
    /\ history = <<>>
    /\ genDisabled = FALSE
    /\ genCount = 0
    /\ tasks = EmptyBag
    /\ timers = <<>>
    /\ \/ src = NoUrl /\ playing = FALSE /\ atStart = TRUE /\ status = "idle"
       \/ src = OldUrl /\ playing = TRUE /\ atStart = FALSE /\ status = "ready"

InitBack ==
    /\ now = 0
    /\ lastSwitchTime = Never
    /\ prevFingerprint = NoPrint
    /\ lastEvent = [distance |-> 0, exceedsThreshold |-> FALSE]
    /\ decisions = <<>>

\* the controls as the page loads: Instrumental on
InitUi == prefs = "instrumental"

Init == InitFront /\ InitBack /\ InitUi

\* the front end: every handler segment
Next ==
    \/ GenerateClick /\ UNCHANGED <<backVars, uiVars>>
    \/ \E t \in BagToSet(tasks) : GenerateGenDone(t) /\ UNCHANGED <<backVars, uiVars>>
    \/ \E t \in BagToSet(tasks), ok \in BOOLEAN : GenerateResume(t, ok) /\ UNCHANGED <<backVars, uiVars>>
    \/ \E t \in BagToSet(tasks) : PrefetchDone(t) /\ UNCHANGED <<backVars, uiVars>>
    \/ EndedNext /\ UNCHANGED <<backVars, uiVars>>
    \/ EndedRestart /\ UNCHANGED <<backVars, uiVars>>
    \/ \E t \in BagToSet(tasks), ok \in BOOLEAN : EndedResume(t, ok) /\ UNCHANGED <<backVars, uiVars>>
    \/ MusicSwitch /\ UNCHANGED <<backVars, uiVars>>
    \/ \E t \in BagToSet(tasks) : FadeStep(t) /\ UNCHANGED <<backVars, uiVars>>
    \/ \E t \in BagToSet(tasks) : FadeSwitch(t) /\ UNCHANGED <<backVars, uiVars>>
    \/ \E t \in BagToSet(tasks), ok \in BOOLEAN : FadeDone(t, ok) /\ UNCHANGED <<backVars, uiVars>>
    \/ ContextDecision /\ UNCHANGED <<backVars, uiVars>>
    \/ \E t \in BagToSet(tasks) : DecisionTagsDone(t) /\ UNCHANGED <<backVars, uiVars>>
    \/ \E t \in BagToSet(tasks) : SwitchGenDone(t) /\ UNCHANGED <<backVars, uiVars>>
    \/ Back /\ UNCHANGED <<backVars, uiVars>>
    \/ PlayPause /\ UNCHANGED <<backVars, uiVars>>
    \/ \E t \in BagToSet(tasks), ok \in BOOLEAN : ControlResume(t, ok) /\ UNCHANGED <<backVars, uiVars>>
    \/ Forward /\ UNCHANGED <<backVars, uiVars>>
    \/ \E t \in BagToSet(tasks), ok \in BOOLEAN : ForwardResume(t, ok) /\ UNCHANGED <<backVars, uiVars>>
    \/ \E t \in BagToSet(tasks) : ForwardGenDone(t) /\ UNCHANGED <<backVars, uiVars>>

Spec == Init /\ [][Next]_vars

\* the decision engine alone: sampling ticks at any of the intervals
NextDecision ==
    \E dt \in Intervals, fp \in Fingerprints : Tick(dt, fp) /\ UNCHANGED <<frontVars, uiVars>>

SpecDecision == Init /\ [][NextDecision]_vars

\* every handler that submits or settles a generation request, with the fades and
\* play() calls those handlers start (the transport buttons and music:switch do neither)
NextGeneration ==
    \/ GenerateClick /\ UNCHANGED <<backVars, uiVars>>
    \/ \E t \in BagToSet(tasks) : GenerateGenDone(t) /\ UNCHANGED <<backVars, uiVars>>
    \/ \E t \in BagToSet(tasks), ok \in BOOLEAN : GenerateResume(t, ok) /\ UNCHANGED <<backVars, uiVars>>
    \/ \E t \in BagToSet(tasks) : PrefetchDone(t) /\ UNCHANGED <<backVars, uiVars>>
    \/ EndedNext /\ UNCHANGED <<backVars, uiVars>>
    \/ EndedRestart /\ UNCHANGED <<backVars, uiVars>>
    \/ \E t \in BagToSet(tasks), ok \in BOOLEAN : EndedResume(t, ok) /\ UNCHANGED <<backVars, uiVars>>
    \/ \E t \in BagToSet(tasks) : FadeStep(t) /\ UNCHANGED <<backVars, uiVars>>
    \/ \E t \in BagToSet(tasks) : FadeSwitch(t) /\ UNCHANGED <<backVars, uiVars>>
    \/ \E t \in BagToSet(tasks), ok \in BOOLEAN : FadeDone(t, ok) /\ UNCHANGED <<backVars, uiVars>>
    \/ ContextDecision /\ UNCHANGED <<backVars, uiVars>>
    \/ \E t \in BagToSet(tasks) : DecisionTagsDone(t) /\ UNCHANGED <<backVars, uiVars>>
    \/ \E t \in BagToSet(tasks) : SwitchGenDone(t) /\ UNCHANGED <<backVars, uiVars>>
    \/ Forward /\ UNCHANGED <<backVars, uiVars>>
    \/ \E t \in BagToSet(tasks), ok \in BOOLEAN : ForwardResume(t, ok) /\ UNCHANGED <<backVars, uiVars>>
    \/ \E t \in BagToSet(tasks) : ForwardGenDone(t) /\ UNCHANGED <<backVars, uiVars>>

\* the same handlers with the preference buttons in use
NextPrefs == NextGeneration \/ PrefToggle

SpecPrefs == Init /\ [][NextPrefs]_vars

\* the background generation that set the flag settles
SettleFlagged ==
    \E t \in BagToSet(tasks) :
        t.from = "flagged" /\ PrefetchDone(t) /\ UNCHANGED <<backVars, uiVars>>

\* the generation handlers with a back end whose flagged generation calls all return: the
\* invoke of a pending generateTrack() resolves or rejects after finitely many other steps
SpecReturns == Init /\ [][NextGeneration]_vars /\ WF_vars(SettleFlagged)

\* ================================================================ claims
\* a fadeOutAndSwitch call is between its first volume step and its return
FadeInProgress == \E t \in BagToSet(tasks) : t.pc \in {"fadeWait", "fadeAwaitPlay"}

\* C1: in every reachable state at most one background (prefetch) generation is in
\* flight; foreground generations are not counted.
C1_AtMostOnePrefetch == BgInFlight <= 1

\* C2: no step starts a background generation while a next track is buffered
\* (nextUrl set), whichever handler starts it.
C2_NoPrefetchWhileBuffered == [][BgInFlight' > BgInFlight => nextUrl = NoUrl]_vars

\* C3: the step in which a track-ended advance or a forward click takes nextUrl as the
\* new current track also clears nextUrl.
C3_ConsumedInSameStep ==
    [][(EndedNext \/ (Forward /\ nextUrl # NoUrl)) => nextUrl' = NoUrl]_vars

\* C4: once nextUrl holds a URL it changes only by being cleared, and only by the
\* handler that plays that very URL (the track-ended advance, or the forward click
\* that loaded it).
C4_BufferKeptUntilPlayed ==
    [][(nextUrl # NoUrl /\ nextUrl' # nextUrl) =>
          /\ nextUrl' = NoUrl
          /\ \/ EndedNext
             \/ \E t \in BagToSet(tasks) : t.url = nextUrl /\ ForwardResume(t, TRUE)]_vars

\* C5: a track-ended event that arrives while a fade is in progress mutates nothing:
\* current track, history, nextUrl and the position stay, and no play() is issued.
C5_EndedIgnoredDuringFade ==
    [][(FadeInProgress /\ (EndedNext \/ EndedRestart)) =>
          UNCHANGED <<src, history, nextUrl, atStart, tasks>>]_vars

\* C6: when a fadeOutAndSwitch(newUrl) call returns, the volume is the volume the
\* element had when the call began (startVol) and the current track is newUrl.
C6_FadeRestoresVolume ==
    [][\A t \in BagToSet(tasks), ok \in BOOLEAN :
          FadeDone(t, ok) => (volume' = t.sv /\ src' = t.url)]_vars

\* switch_with_fade decisions emitted so far, as indices of the log
Switches == {k \in 1..Len(decisions) : decisions[k].action = "switch_with_fade"}

\* time of the last accepted switch before log entry k, or Never
LastSwitchBefore(k) ==
    LET S == {j \in Switches : j < k}
    IN IF S = {} THEN Never ELSE decisions[CHOOSE j \in S : \A m \in S : m <= j].time

\* C7: two switch_with_fade decisions are never less than COOLDOWN apart; a
\* threshold-exceeding tick less than COOLDOWN after the last accepted switch yields
\* continue, one at least COOLDOWN after it (or with no switch before) yields
\* switch_with_fade; of three exceeding ticks 1 s apart only the first switches.
C7_CooldownBetweenSwitches ==
    /\ \A j, k \in Switches : j < k => decisions[k].time - decisions[j].time >= COOLDOWN
    /\ \A k \in 1..Len(decisions) :
          decisions[k].exceeds =>
              LET last == LastSwitchBefore(k)
              IN decisions[k].action =
                    IF last = Never \/ decisions[k].time - last >= COOLDOWN
                    THEN "switch_with_fade" ELSE "continue"
    /\ \A k \in 1..(Len(decisions) - 2) :
          (/\ \A m \in k..(k + 2) : decisions[m].exceeds
           /\ decisions[k + 1].time = decisions[k].time + 1
           /\ decisions[k + 2].time = decisions[k].time + 2
           /\ decisions[k].action = "switch_with_fade")
          => (decisions[k + 1].action = "continue" /\ decisions[k + 2].action = "continue")

\* three exceeding ticks 1 s apart, the first accepted, then one after the cooldown
C7_Witness ==
    /\ Len(decisions) >= 4
    /\ \E k \in 1..(Len(decisions) - 3) :
          /\ \A m \in k..(k + 3) : decisions[m].exceeds
          /\ decisions[k].action = "switch_with_fade"
          /\ decisions[k + 1].time = decisions[k].time + 1
          /\ decisions[k + 2].time = decisions[k].time + 2
          /\ decisions[k + 1].action = "continue"
          /\ decisions[k + 2].action = "continue"
          /\ decisions[k + 3].action = "switch_with_fade"

C9_AdvanceStartsOnePrefetch ==
    [][/\ EndedNext =>
            /\ src' = nextUrl /\ history' = Append(history, src) /\ nextUrl' = NoUrl
       /\ \A t \in BagToSet(tasks), ok \in BOOLEAN :
            (t.from = "next" /\ EndedResume(t, ok)) => BgInFlight' = BgInFlight + 1]_vars

\* C9 amended: ... and, once play() has settled, its handler starts one background
\* generation unless the in-flight flag is already set, in which case it starts none.
C9_AdvanceStartsPrefetchUnlessBusy ==
    [][/\ EndedNext =>
            /\ src' = nextUrl /\ history' = Append(history, src) /\ nextUrl' = NoUrl
       /\ \A t \in BagToSet(tasks), ok \in BOOLEAN :
            (t.from = "next" /\ EndedResume(t, ok)) =>
                /\ generating'
                /\ BgInFlight' = BgInFlight + (IF generating THEN 0 ELSE 1)]_vars

\* the advance has run: X is current, the ended track is on history, the buffer is empty
C9_Witness ==
    \E t \in BagToSet(tasks) :
        /\ t.pc = "endAwaitPlay" /\ t.from = "next" /\ t.st = "pend"
        /\ src = t.url /\ nextUrl = NoUrl
        /\ history # <<>> /\ history[Len(history)] # src

\* C10: every step that replaces the current track by another URL appends the URL
\* that was current just before to history; a fade, which pushes when it begins and
\* replaces the track when its ramp ends, has that URL as the last entry already.
C10_SwitchPushesPrevious ==
    [][(src # NoUrl /\ src' # src) =>
          \/ history' = Append(history, src)
          \/ /\ \E t \in BagToSet(tasks) : FadeSwitch(t)
             /\ history # <<>> /\ history[Len(history)] = src
             /\ history' = history]_vars

\* the switch_with_fade branch of the context:decision handler runs in this step
SwitchBranchRuns ==
    \/ ContextDecision /\ DecisionAct("switch_with_fade", tasks)
    \/ \E t \in BagToSet(tasks) : t.from = "switch_with_fade" /\ DecisionTagsDone(t)

\* C11: a context:decision step issues one foreground generation if its
\* switch_with_fade branch runs and none otherwise, and touches neither the player
\* nor history; when that generation succeeds the handler starts a fade into the
\* returned URL, which pushes the current source (if any) onto history once, and
\* the fade's switch makes the returned URL current without a second push.
C11_SwitchDecisionFadesOnce ==
    [][/\ (ContextDecision \/ \E t \in BagToSet(tasks) : DecisionTagsDone(t)) =>
            /\ FgInFlight' = FgInFlight + (IF SwitchBranchRuns THEN 1 ELSE 0)
            /\ UNCHANGED <<src, history, volume, nextUrl>>
       /\ \A t \in BagToSet(tasks) :
            /\ (SwitchGenDone(t) /\ genCount' # genCount) =>
                  /\ history' = (IF src # NoUrl THEN Append(history, src) ELSE history)
                  /\ src' = src
                  /\ FgInFlight' = FgInFlight - 1
                  /\ \E f \in BagToSet(tasks') :
                        f.pc = "fadeWait" /\ f.from = "decision" /\ f.url = genCount'
            /\ (t.from = "decision" /\ (FadeStep(t) \/ FadeSwitch(t))) => history' = history
            /\ (t.from = "decision" /\ FadeSwitch(t)) => src' = t.url
            /\ \A ok \in BOOLEAN :
                  (t.from = "decision" /\ FadeDone(t, ok)) => UNCHANGED <<src, history>>]_vars

\* a switch_with_fade decision has been served: its fade went from OldUrl to the
\* generated URL, and OldUrl is the one history entry
C11_Witness ==
    \E t \in BagToSet(tasks) :
        /\ t.pc = "fadeAwaitPlay" /\ t.from = "decision"
        /\ src = t.url /\ history = <<OldUrl>>

\* C12: a back click with an empty history seeks the current track to zero and calls
\* play() on it, leaving the current URL, the empty history, nextUrl and the volume
\* alone; whichever way that play() settles nothing is thrown and the same three are
\* still untouched, and if it resolves the player is playing.
C12_BackOnEmptyRestarts ==
    [][/\ (Back /\ history = <<>>) =>
            /\ atStart'
            /\ UNCHANGED <<src, history, nextUrl, volume, playing>>
            /\ CountPc(tasks', {"ctlAwaitPlay"}) = CountPc(tasks, {"ctlAwaitPlay"}) + 1
       /\ \A t \in BagToSet(tasks), ok \in BOOLEAN :
            ControlResume(t, ok) =>
                /\ UNCHANGED <<src, history, nextUrl>>
                /\ ok => playing']_vars

\* back was clicked on a playing track with no history: the position is zero again
\* while the track is still playing and the play() of the handler is pending
C12_Witness ==
    /\ history = <<>> /\ src # NoUrl /\ playing /\ atStart
    /\ \E t \in BagToSet(tasks) : t.pc = "ctlAwaitPlay" /\ t.st = "pend"

\* C13: a back click with a non-empty history removes the last entry of history (the
\* one pushed most recently), leaves the entries below it in place and makes the
\* removed URL the current track; so consecutive clicks replay the pushed tracks
\* newest first.
C13_BackPopsNewest ==
    [][(Back /\ history # <<>>) =>
          /\ src' = history[Len(history)]
          /\ Len(history') = Len(history) - 1
          /\ \A k \in 1..Len(history') : history'[k] = history[k]
          /\ atStart'
          /\ UNCHANGED nextUrl]_vars

\* back has returned from the one generated track to OldUrl: that track was current
\* (it is referred to nowhere else), history is empty again and play() is pending
C13_Witness ==
    /\ src = OldUrl /\ genCount = 1 /\ nextUrl = NoUrl /\ history = <<>>
    /\ timers = <<>> /\ \A t \in BagToSet(tasks) : t.url = NoUrl
    /\ atStart /\ ~playing
    /\ \E t \in BagToSet(tasks) : t.pc = "ctlAwaitPlay" /\ t.st = "pend"

\* C14: a play/pause click leaves the current URL, history, nextUrl, the in-flight
\* flag, the volume and the position alone; on a paused element it calls play(), and
\* the element is playing once that play() resolves; on an element that is not paused
\* it pauses.  So a pause followed by a play that resolves, or the reverse, ends in
\* the state it began in.
C14_PlayPauseOnlyToggles ==
    [][/\ PlayPause =>
            /\ UNCHANGED <<src, history, nextUrl, generating, volume, atStart>>
            /\ IF paused
               THEN /\ playing' = playing
                    /\ CountPc(tasks', {"ctlAwaitPlay"}) = CountPc(tasks, {"ctlAwaitPlay"}) + 1
               ELSE paused' /\ NumTasks' = NumTasks
       /\ \A t \in BagToSet(tasks) :
            ControlResume(t, TRUE) =>
                /\ playing' /\ ~paused'
                /\ UNCHANGED <<src, history, nextUrl, generating, volume>>]_vars

\* a track that was playing has been paused by the button: it is silent in mid-track
C14_Witness ==
    /\ paused /\ src # NoUrl /\ ~atStart

\* the play() awaited by t was called on a source its handler had just loaded
LoadedBy(t) ==
    \/ t.pc \in {"genAwaitPlay", "fadeAwaitPlay", "fwdAwaitPlay"}
    \/ t.pc = "endAwaitPlay" /\ t.from = "next"

\* t's handler resumes after its play() was rejected because playback could not start
\* (not because a later load or pause superseded it)
StartFailed(t) ==
    /\ LoadedBy(t) /\ t.st = "pend"
    /\ \/ GenerateResume(t, FALSE) \/ FadeDone(t, FALSE)
       \/ ForwardResume(t, FALSE) \/ EndedResume(t, FALSE)

\* C15: when the play() of a newly loaded URL rejects, the handler reports an error
\* and the URL it had loaded is no longer the current track, nor is nextUrl left
\* emptied by the failed advance.
C15_FailedStartRollsBack ==
    [][\A t \in BagToSet(tasks) :
          StartFailed(t) =>
              /\ status' = "error"
              /\ t.url # NoUrl => src' # t.url
              /\ (t.pc = "endAwaitPlay") => nextUrl' = t.url]_vars

\* a background generateTrack() settles with a failure in this step
PrefetchFailed(t) == PrefetchDone(t) /\ genCount' = genCount

\* C16: when a background prefetch fails, nextUrl is left as it was, an error is
\* reported, and the failure starts no generation of any kind.
C16_PrefetchFailureReported ==
    [][\A t \in BagToSet(tasks) :
          PrefetchFailed(t) =>
              /\ nextUrl' = nextUrl
              /\ status' = "error"
              /\ BgInFlight' = BgInFlight - 1
              /\ FgInFlight' = FgInFlight]_vars

\* a foreground generateTrack() settles with a failure in this step
ForegroundFailed(t) ==
    /\ genCount' = genCount
    /\ GenerateGenDone(t) \/ SwitchGenDone(t) \/ ForwardGenDone(t)

\* C17: when a foreground generation fails (Generate click, switch_with_fade, forward
\* with an empty buffer), its handler reports an error and leaves the current URL,
\* history, nextUrl and the volume alone.
C17_ForegroundFailureReported ==
    [][\A t \in BagToSet(tasks) :
          ForegroundFailed(t) =>
              /\ status' = "error"
              /\ UNCHANGED <<src, history, nextUrl, volume>>]_vars

\* C18: a forward click with a next track buffered makes it the current track, pushing
\* the track it leaves, and the buffer is empty once the play() of that click has
\* settled; a forward click with an empty buffer starts one foreground generation
\* whatever the in-flight flag says and does not set the flag, and when that
\* generation succeeds its result becomes the current track, the track it replaces is
\* pushed, and nextUrl and the flag are not written.
C18_ForwardConsumesOrGenerates ==
    [][/\ (Forward /\ nextUrl # NoUrl) =>
            /\ src' = nextUrl
            /\ history' = (IF src # NoUrl THEN Append(history, src) ELSE history)
            /\ FgInFlight' = FgInFlight
       /\ (Forward /\ nextUrl = NoUrl) =>
            /\ FgInFlight' = FgInFlight + 1
            /\ BgInFlight' = BgInFlight
            /\ UNCHANGED <<src, history, nextUrl, generating>>
       /\ \A t \in BagToSet(tasks) :
            /\ \A ok \in BOOLEAN : ForwardResume(t, ok) => nextUrl' = NoUrl
            /\ (ForwardGenDone(t) /\ genCount' # genCount) =>
                  /\ src' = genCount'
                  /\ history' = (IF src # NoUrl THEN Append(history, src) ELSE history)
                  /\ UNCHANGED <<nextUrl, generating>>]_vars

\* C19: a foreground generation requested while a prefetch is in flight is started
\* at once, and that prefetch does not deliver its result before the foreground
\* generation has delivered its own: whenever a prefetch succeeds, every foreground
\* generation still pending was requested before it; and the result of a prefetch
\* that succeeds is stored in nextUrl.
C19_ForegroundDeliveredFirst ==
    [][\A t \in BagToSet(tasks) :
          (PrefetchDone(t) /\ genCount' # genCount) =>
              /\ FgInFlight <= t.i
              /\ nextUrl' = genCount']_vars

\* the fades started by switch_with_fade decisions that are still inside their ramp
RampingDecisionFades(B) == {f \in BagToSet(B) : f.pc = "fadeWait" /\ f.from = "decision"}

\* C20: every foreground generation of a switch_with_fade decision that succeeds
\* starts a fade into its result when it arrives, whatever other decisions are
\* pending or already applied; the switch of that fade makes the result the current
\* track; and the fades switch in the order their results arrived (a later result has
\* a larger URL number), so the result that arrived last is the one that stays.
C20_EveryResultAppliedInOrder ==
    [][\A t \in BagToSet(tasks) :
          /\ (SwitchGenDone(t) /\ genCount' # genCount) =>
                \E f \in RampingDecisionFades(tasks') : f.url = genCount'
          /\ (t.from = "decision" /\ FadeSwitch(t)) =>
                /\ src' = t.url
                /\ \A f \in RampingDecisionFades(tasks') : f.url > t.url]_vars

\* two switch_with_fade results arrived one after the other and both were applied:
\* the fade of the first has switched, then that of the second, whose URL is current
C20_Witness ==
    \E t1, t2 \in BagToSet(tasks) :
        /\ t1.pc = "fadeAwaitPlay" /\ t1.from = "decision"
        /\ t2.pc = "fadeAwaitPlay" /\ t2.from = "decision"
        /\ t1.url < t2.url /\ src = t2.url

C22_SuppressedChangeNotQueued ==
    /\ \A k \in 1..Len(decisions) :
          LET last == LastSwitchBefore(k)
          IN (decisions[k].action = "switch_with_fade")
                <=> (/\ decisions[k].exceeds
                     /\ (last = Never \/ decisions[k].time - last >= COOLDOWN))
    /\ \A k \in 1..Len(decisions) : decisions[k].action \in {"switch_with_fade", "continue"}
    /\ lastSwitchTime = LastSwitchBefore(Len(decisions) + 1)

\* a significant change suppressed by the cooldown, then a quiet tick after the cooldown
\* has run out: it continues, and the limiter still holds the time of the accepted switch
C22_Witness ==
    \E k \in 2..(Len(decisions) - 1) :
        /\ decisions[k - 1].action = "switch_with_fade"
        /\ decisions[k].exceeds
        /\ decisions[k].action = "continue"
        /\ ~decisions[k + 1].exceeds
        /\ decisions[k + 1].time - decisions[k - 1].time >= COOLDOWN
        /\ decisions[k + 1].action = "continue"
        /\ Len(decisions) = k + 1
        /\ lastSwitchTime = decisions[k - 1].time

\* C23: a generation request carries the preferences shown when it is submitted: every
\* step that adds a pending generateTrack() adds it with the preferences of that moment,
\* and a preference change leaves every request in flight as it is, so it shows only in
\* requests submitted after it.
C23_RequestUsesPrefsAtSubmission ==
    [][/\ \A t \in BagToSet(tasks') :
             (t.pc \in GenPcs /\ CopiesIn(t, tasks') > CopiesIn(t, tasks)) => t.prefs = prefs
       /\ prefs' # prefs => tasks' = tasks]_vars

\* a request submitted before a preference change is still in flight with the old
\* preferences, next to one submitted after the change with the new ones
C23_Witness ==
    \E t, u \in BagToSet(tasks) :
        /\ t.pc \in GenPcs /\ t.prefs # prefs
        /\ u.pc \in GenPcs /\ u.prefs = prefs

\* a fadeOutAndSwitch call starts in this step
FadeBegins == CountPc(tasks', {"fadeWait"}) > CountPc(tasks, {"fadeWait"})

\* C24: a background prefetch that settles, with a track or with a failure, leaves history
\* and the current track as they are; history gets longer only in a step of a handler
\* that switches the current track: the start of a fade, the track-ended advance, and
\* forward (from the buffer or with its own generation).
C24_PrefetchLeavesHistoryAndTrack ==
    [][/\ \A t \in BagToSet(tasks) : PrefetchDone(t) => (history' = history /\ src' = src)
       /\ Len(history') > Len(history) =>
             \/ FadeBegins
             \/ EndedNext
             \/ Forward
             \/ \E t \in BagToSet(tasks) : ForwardGenDone(t)]_vars

\* a prefetch has delivered into the buffer while a track with a history is on the player
C24_Witness ==
    /\ nextUrl # NoUrl
    /\ BgInFlight = 0
    /\ src \notin {NoUrl, nextUrl}
    /\ Len(history) > 0

\* the awaits inside fadeOutAndSwitch
FadePcs == {"fadeWait", "fadeAwaitPlay"}

\* C25: playback mutations do not interleave: while a fadeOutAndSwitch call is between
\* its start and its return, the only steps that change the audio source, the volume or
\* history are the steps of that one call; no second fade and no Generate, forward, back
\* or track-ended handler changes them.
C25_NoInterleavedPlaybackMutation ==
    [][FadeInProgress =>
          \/ UNCHANGED <<src, volume, history>>
          \/ /\ CountPc(tasks, FadePcs) = 1
             /\ \E t \in BagToSet(tasks) :
                   \/ FadeStep(t)
                   \/ FadeSwitch(t)
                   \/ \E ok \in BOOLEAN : FadeDone(t, ok)]_vars

\* C26: in a fade every volume step leaves the volume no higher than it was, the 10th
\* step leaves it at 0, the source is replaced only in a state where the volume is 0,
\* and the volume goes up only in the step that has just replaced the source.
C26_FadeRampReachesZeroBeforeSwitch ==
    [][/\ \A t \in BagToSet(tasks) :
             /\ FadeStep(t) => volume' <= volume
             /\ (FadeStep(t) /\ t.i = steps - 1) => volume' = 0
             /\ FadeSwitch(t) => (volume = 0 /\ src' = t.url)
       /\ volume' > volume => \E t \in BagToSet(tasks) : FadeSwitch(t)]_vars

\* background generations in flight that set the flag when they were started
FlaggedInFlight == CountPc([t \in {u \in BagToSet(tasks) : u.from = "flagged"} |-> tasks[t]],
                           {"prefetch"})

\* C27: the flag generating is set exactly while a prefetch that set it is outstanding
\* (there is never more than one), so it is false again as soon as that prefetch has
\* settled, with a track or with a failure; and when every such call returns, a set flag
\* always leads to a cleared one.
C27_FlagTracksFlaggedPrefetch ==
    /\ [](generating <=> FlaggedInFlight = 1)
    /\ [](FlaggedInFlight <= 1)
    /\ generating ~> ~generating

\* from the empty page a continue decision started a flagged prefetch, which delivered:
\* the buffer is filled and the flag is down again
C27_Witness ==
    /\ src = NoUrl
    /\ nextUrl # NoUrl
    /\ ~generating
    /\ FlaggedInFlight = 0

\* the Generate click handler is suspended at one of its awaits
GenerateRunning == CountPc(tasks, {"genAwaitGen", "genAwaitPlay"}) > 0

\* C28: the Generate button is disabled exactly while its click handler runs, from the
\* click to the handler's end; a failed generation enables it at once, a successful one
\* once the handler has gone through its play() call, whatever that call's outcome; so
\* at most one foreground generation started by Generate is in flight and the button
\* is not disabled when no handler is running.
C28_GenerateButtonGuardsHandler ==
    /\ [](genDisabled <=> GenerateRunning)
    /\ [](CountPc(tasks, {"genAwaitGen", "genAwaitPlay"}) <= 1)
    /\ [][/\ GenerateClick => genDisabled'
          /\ \A t \in BagToSet(tasks) :
                /\ GenerateGenDone(t) => (genDisabled' <=> status' # "error")
                /\ \A ok \in BOOLEAN : GenerateResume(t, ok) => ~genDisabled']_vars

\* a Generate click whose generation failed: the error is shown and the button is enabled
C28_Witness ==
    /\ status = "error"
    /\ ~genDisabled
    /\ ~GenerateRunning

\* the continue branch of the context:decision handler runs in this step
ContinueBranchRuns ==
    \/ ContextDecision /\ DecisionAct("continue", tasks)
    \/ \E t \in BagToSet(tasks) : t.from = "continue" /\ DecisionTagsDone(t)

\* C29: a step in which the continue branch of a decision runs leaves the current track,
\* history, the volume and the playing state alone, and starts one background prefetch
\* exactly when nextUrl is empty and no prefetch is in flight, none otherwise.
C29_ContinueOnlyEnsuresPrefetch ==
    [][ContinueBranchRuns =>
          /\ UNCHANGED <<src, history, volume, playing>>
          /\ BgInFlight' = BgInFlight + (IF nextUrl = NoUrl /\ BgInFlight = 0 THEN 1 ELSE 0)]_vars

\* C30: no entry of history is the empty URL; a step taken while nothing is loaded leaves
\* history as it is, and when that step is a forward (from the buffer or with its own
\* generation) or the switch of a fade it loads the new track.
C30_HistoryHoldsOnlyLoadedTracks ==
    /\ [](\A k \in 1..Len(history) : history[k] # NoUrl)
    /\ [][src = NoUrl =>
             /\ history' = history
             /\ (Forward /\ nextUrl # NoUrl) => src' = nextUrl
             /\ \A t \in BagToSet(tasks) :
                   /\ (ForwardGenDone(t) /\ genCount' # genCount) => src' = genCount'
                   /\ FadeSwitch(t) => src' = t.url]_vars

\* on a page that never generated anything, the first track ever produced was faded in
\* from the empty player: it is current and history is still empty
C30_Witness ==
    /\ status = "idle"
    /\ genCount = 1
    /\ src = 1
    /\ history = <<>>
    /\ \E t \in BagToSet(tasks) : t.pc = "fadeAwaitPlay" /\ t.url = src

====
